---- MODULE Spec2Model ----
(***************************************************************************)
(* Export pipeline of the Editor to Clipboard plugin: front-matter and     *)
(* block-id stripping, embed discovery, per-directive resolution against   *)
(* the vault and the metadata cache, reverse-order splicing, and the       *)
(* clipboard / file tail of OneClickClipboard and saveToFile.              *)
(*                                                                         *)
(* A text is a sequence of one-character strings.  Offsets are 0-based as  *)
(* in the TypeScript source; Slice and At convert to TLA+ sequences.       *)
(* Two revisions of the engine are kept in the repository and both are     *)
(* modelled; the variable rev says which one a run executes.               *)
(***************************************************************************)
EXTENDS Integers, Sequences, FiniteSets, TLC

\* ------------------------------------------------------------------------
\* Characters and JavaScript string primitives
\* ------------------------------------------------------------------------

NL == "\n"

Digits == {"0", "1", "2", "3", "4", "5", "6", "7", "8", "9"}

LowerCase ==
    {"a", "b", "c", "d", "e", "f", "g", "h", "i", "j", "k", "l", "m",
     "n", "o", "p", "q", "r", "s", "t", "u", "v", "w", "x", "y", "z"}

UpperCase ==
    {"A", "B", "C", "D", "E", "F", "G", "H", "I", "J", "K", "L", "M",
     "N", "O", "P", "Q", "R", "S", "T", "U", "V", "W", "X", "Y", "Z"}

\* [a-zA-Z0-9]
Alnum == Digits \cup LowerCase \cup UpperCase

\* \s restricted to the characters of the modelled alphabet
IsSpace(c) == c \in {" ", "\t", "\n", "\r"}

\* the characters `.` does not match
IsLineTerminator(c) == c \in {"\n", "\r"}

\* null / undefined of a `string | null` value
Null == <<"null">>

\* the exception a `new RegExp(...)` with an invalid source raises
Thrown == <<"SyntaxError">>

\* JavaScript truthiness of a `string | null`
Truthy(r) == r # Null /\ r # <<>>

\* s[p] with 0-based p; "" past the end (undefined)
At(s, p) == IF p >= 0 /\ p < Len(s) THEN s[p + 1] ELSE ""

\* s.slice(a, b)
Slice(s, a, b) == SubSeq(s, a + 1, b)

\* s.slice(a)
SliceFrom(s, a) == SubSeq(s, a + 1, Len(s))

\* s.startsWith(t, p)
StartsWithAt(s, t, p) == p + Len(t) <= Len(s) /\ Slice(s, p, p + Len(t)) = t

Min(S) == CHOOSE x \in S : \A y \in S : x <= y

RECURSIVE WsRun(_, _)
\* length of the maximal run of whitespace starting at offset p
WsRun(s, p) == IF p < Len(s) /\ IsSpace(At(s, p)) THEN 1 + WsRun(s, p + 1) ELSE 0

RECURSIVE AlnumRun(_, _)
\* length of the maximal run of [a-zA-Z0-9] starting at offset p
AlnumRun(s, p) == IF p < Len(s) /\ At(s, p) \in Alnum THEN 1 + AlnumRun(s, p + 1) ELSE 0

RECURSIVE HashRun(_, _)
\* length of the maximal run of `#` starting at offset p
HashRun(s, p) == IF p < Len(s) /\ At(s, p) = "#" THEN 1 + HashRun(s, p + 1) ELSE 0

RECURSIVE NotBracketRun(_, _)
\* length of the maximal run of [^\]] starting at offset p
NotBracketRun(s, p) == IF p < Len(s) /\ At(s, p) # "]" THEN 1 + NotBracketRun(s, p + 1) ELSE 0

RECURSIVE LineEnd(_, _)
\* offset of the first "\n" at or after p, or the length of s
LineEnd(s, p) == IF p < Len(s) /\ At(s, p) # NL THEN LineEnd(s, p + 1) ELSE IF p < Len(s) THEN p ELSE Len(s)

RECURSIVE TrimStart(_)
TrimStart(s) == IF s # <<>> /\ IsSpace(Head(s)) THEN TrimStart(Tail(s)) ELSE s

RECURSIVE TrimEnd(_)
\* s.replace(/\s+$/, '')
TrimEnd(s) == IF s # <<>> /\ IsSpace(s[Len(s)]) THEN TrimEnd(SubSeq(s, 1, Len(s) - 1)) ELSE s

\* s.trim()
Trim(s) == TrimEnd(TrimStart(s))

ToLowerChar(c) ==
    CASE c = "A" -> "a" [] c = "B" -> "b" [] c = "C" -> "c" [] c = "H" -> "h"
      [] c = "M" -> "m" [] c = "X" -> "x" [] OTHER -> c

\* s.toLowerCase() on the modelled alphabet
ToLowerCase(s) == [k \in 1..Len(s) |-> ToLowerChar(s[k])]

RECURSIVE Split(_)
\* s.split('\n')
Split(s) ==
    LET e == LineEnd(s, 0)
    IN  IF e = Len(s) THEN <<s>> ELSE <<Slice(s, 0, e)>> \o Split(SliceFrom(s, e + 1))

RECURSIVE Join(_)
\* lines.join('\n')
Join(lines) ==
    IF lines = <<>> THEN <<>>
    ELSE IF Len(lines) = 1 THEN lines[1]
    ELSE lines[1] \o <<NL>> \o Join(Tail(lines))

\* lines.slice(a, b) of an array
SliceLines(lines, a, b) == SubSeq(lines, a + 1, IF b < Len(lines) THEN b ELSE Len(lines))

\* ------------------------------------------------------------------------
\* State
\* ------------------------------------------------------------------------

VARIABLES
    rev,          \* which revision of the engine runs: "main.ts" or "part_001"
    vault,        \* file name -> raw text (what vault.read returns)
    cache,        \* file name -> structural index or NoCache (getFileCache)
    settings,     \* the plugin settings record
    editorText,   \* editor.getValue() of the active markdown view
    op,           \* the running handler: "none", "copy" or "save"
    pc,           \* position of the running handler
    content,      \* the handler's working text
    original,     \* the text resolveBlockReferences was called with
    matches,      \* the discovery list of the running pass
    i,            \* loop index of the running pass (0-based)
    calls,        \* log of collaborator calls: <<kind, directive index>>
    splices,      \* log of splices: directive index, kind, span text, replacement
    clipboard,    \* text on the clipboard, or Null
    notices,      \* the Notice texts shown, in order
    created,      \* files created by vault.create: <<path, content>>
    opened,       \* files opened in a new tab, in order
    err,          \* what made the handler's promise reject: "none", "read", "SyntaxError"
    targetPath,   \* saveToFile's targetPath
    other,        \* the locals of a second, overlapping OneClickClipboard call
    gui           \* the plugin's buttons, floating containers and debounce timer

vars == <<rev, vault, cache, settings, editorText, op, pc, content, original,
          matches, i, calls, splices, clipboard, notices, created, opened, err,
          targetPath, other, gui>>

\* what the first handler invocation never changes: the environment and
\* the locals of the other invocation
env == <<rev, cache, settings, editorText, other, gui>>

\* what only the tail of a handler changes
ui == <<clipboard, notices, created, opened, targetPath>>

RevMain == "main.ts"
RevPart1 == "part_001"

\* ------------------------------------------------------------------------
\* Discovery: content.matchAll(/\!\[\[(.*?)(?:#([^\]]+))?\]\]/g)
\* ------------------------------------------------------------------------

NoMatch == [ok |-> FALSE, index |-> 0, length |-> 0, g1 |-> <<>>, hasG2 |-> FALSE, g2 |-> <<>>]

RECURSIVE LazyPath(_, _, _)
\* the lazy (.*?) of the embed pattern: group 1 has grown to k characters;
\* try `#([^\]]+)\]\]`, then `\]\]`, then one more character of the path
LazyPath(s, p, k) ==
    LET pos == p + 3 + k
        r == NotBracketRun(s, pos + 1)
    IN  IF pos >= Len(s) THEN NoMatch
        ELSE IF At(s, pos) = "#" /\ r >= 1 /\ At(s, pos + 1 + r) = "]" /\ At(s, pos + 2 + r) = "]"
             THEN [ok |-> TRUE, index |-> p, length |-> pos + r + 3 - p,
                   g1 |-> Slice(s, p + 3, pos), hasG2 |-> TRUE,
                   g2 |-> Slice(s, pos + 1, pos + 1 + r)]
        ELSE IF At(s, pos) = "]" /\ At(s, pos + 1) = "]"
             THEN [ok |-> TRUE, index |-> p, length |-> pos + 2 - p,
                   g1 |-> Slice(s, p + 3, pos), hasG2 |-> FALSE, g2 |-> <<>>]
        ELSE IF IsLineTerminator(At(s, pos)) THEN NoMatch
        ELSE LazyPath(s, p, k + 1)

\* mutant: the pattern without its leading `\!`, so that any character
\* followed by `[[` opens a directive
ExecEmbedAtNoBang(s, p) ==
    IF At(s, p + 1) = "[" /\ At(s, p + 2) = "["
    THEN LazyPath(s, p, 0)
    ELSE NoMatch

\* one attempt of the embed pattern at offset p
ExecEmbedAt(s, p) ==
    IF At(s, p) = "!" /\ At(s, p + 1) = "[" /\ At(s, p + 2) = "["
    THEN LazyPath(s, p, 0)
    ELSE NoMatch

RECURSIVE MatchAllFrom(_, _)
\* the global scan: left to right, resuming after each match
MatchAllFrom(s, p) ==
    IF p >= Len(s) THEN <<>>
    ELSE LET m == ExecEmbedAt(s, p)
         IN  IF m.ok THEN <<m>> \o MatchAllFrom(s, p + m.length)
             ELSE MatchAllFrom(s, p + 1)

RECURSIVE Reverse(_)
Reverse(q) == IF q = <<>> THEN <<>> ELSE Append(Reverse(Tail(q)), Head(q))

\* mutant: the discovery list in right-to-left order, so that the reverse
\* loop splices in ascending offset
MatchAllReversed(s) == Reverse(MatchAllFrom(s, 0))

\* Array.from(content.matchAll(embedPattern))
MatchAll(s) == MatchAllFrom(s, 0)

\* match[0]
FullMatch(s, m) == Slice(s, m.index, m.index + m.length)

\* const filePath = match[1].trim()
FilePathOf(m) == Trim(m.g1)

\* const hashPart = match[2] ? match[2].trim() : ""
HashPartOf(m) == IF m.hasG2 THEN Trim(m.g2) ELSE <<>>

\* ------------------------------------------------------------------------
\* Block-id cleaning
\* ------------------------------------------------------------------------

\* `new RegExp(...)` with blockId interpolated unescaped: on the modelled
\* alphabet an id containing "(" leaves a group unterminated and the
\* constructor throws; an alphanumeric id is a literal
RegExpThrows(blockId) == \E k \in 1..Len(blockId) : blockId[k] = "("

\* content.replace(new RegExp(`\\^${blockId}\\s*$`), '')
RemoveSpecificId(s, blockId) ==
    LET hits == {t \in 0..Len(s) :
                    /\ StartsWithAt(s, <<"^">> \o blockId, t)
                    /\ t + 1 + Len(blockId) + WsRun(s, t + 1 + Len(blockId)) = Len(s)}
    IN  IF hits = {} THEN s ELSE Slice(s, 0, Min(hits))

\* content.replace(/\s*\^[a-zA-Z0-9]+\s*$/g, '')
RemoveAnyId(s) ==
    LET hits == {u \in 0..Len(s) :
                    LET a == u + WsRun(s, u)
                        n == AlnumRun(s, a + 1)
                        b == a + 1 + n
                    IN  At(s, a) = "^" /\ n >= 1 /\ b + WsRun(s, b) = Len(s)}
    IN  IF hits = {} THEN s ELSE Slice(s, 0, Min(hits))

\* the final trim of cleanBlockContent: trailing whitespace only in
\* part_001, both ends in main.ts
FinalTrim(s) == IF rev = RevPart1 THEN TrimEnd(s) ELSE Trim(s)

\* cleanBlockContent(content, blockId); blockId = <<>> when omitted;
\* content = Null stands for undefined
cleanBlockContent(s, blockId) ==
    IF ~Truthy(s) THEN <<>>
    ELSE IF blockId # <<>> /\ RegExpThrows(blockId) THEN Thrown
    ELSE LET s1 == IF blockId # <<>> THEN RemoveSpecificId(s, blockId) ELSE s
         IN  FinalTrim(RemoveAnyId(s1))

\* cleanAllBlockIds(content)
cleanAllBlockIds(s) ==
    LET lines == Split(s)
    IN  Join([k \in 1..Len(lines) |-> cleanBlockContent(lines[k], <<>>)])

\* content.replace(/^---\n[\s\S]*?\n---\n/, '')
RemoveMetadata(s) ==
    LET open == <<"-", "-", "-", NL>>
        close == <<NL, "-", "-", "-", NL>>
        ends == {j \in 0..Len(s) : StartsWithAt(s, close, 4 + j)}
    IN  IF StartsWithAt(s, open, 0) /\ ends # {}
        THEN SliceFrom(s, 4 + Min(ends) + 5)
        ELSE s

\* ------------------------------------------------------------------------
\* Structural index (metadataCache.getFileCache) and extraction
\* ------------------------------------------------------------------------

\* getFileCache returned null
NoCache == [present |-> FALSE, headings |-> <<>>, blocks |-> <<>>]

\* t occurs in s: s.includes(t)
Includes(s, t) == \E p \in 0..Len(s) : StartsWithAt(s, t, p)

\* fileCache && fileCache.blocks && fileCache.blocks[blockId]
HasBlockEntry(idx, blockId) ==
    idx.present /\ \E k \in 1..Len(idx.blocks) : idx.blocks[k].id = blockId

\* fileCache.blocks[blockId].position.start.line
BlockLine(idx, blockId) ==
    idx.blocks[Min({k \in 1..Len(idx.blocks) : idx.blocks[k].id = blockId})].line

\* fileLines[n]: undefined outside the array
LineAt(fileLines, n) == IF n >= 0 /\ n < Len(fileLines) THEN fileLines[n + 1] ELSE Null

\* the cache branch of a block reference
BlockFromCache(fileContent, idx, blockId) ==
    cleanBlockContent(LineAt(Split(fileContent), BlockLine(idx, blockId)), blockId)

\* new RegExp(`(.*?)\\s*\\^${blockId}(?:\\s|$)`, "m").exec(fileContent):
\* group 1 of the leftmost match, lazily shortest, or Null
BlockRegexExec(s, blockId) ==
    LET token == <<"^">> \o blockId
        ok(p, k) ==
            /\ \A q \in p..(p + k - 1) : ~IsLineTerminator(At(s, q))
            /\ LET a == p + k + WsRun(s, p + k)
                   e == a + Len(token)
               IN  StartsWithAt(s, token, a) /\ (e = Len(s) \/ IsSpace(At(s, e)))
        starts == {p \in 0..Len(s) : \E k \in 0..(Len(s) - p) : ok(p, k)}
    IN  IF starts = {} THEN Null
        ELSE LET p0 == Min(starts)
                 k0 == Min({k \in 0..(Len(s) - p0) : ok(p0, k)})
             IN  Slice(s, p0, p0 + k0)

\* the first line that includes the token, or Null
FirstLineIncluding(fileLines, token) ==
    LET hits == {k \in 1..Len(fileLines) : Includes(fileLines[k], token)}
    IN  IF hits = {} THEN Null ELSE fileLines[Min(hits)]

\* the fallback branch of a block reference: the regular expression, then
\* the line-by-line scan
BlockFallback(fileContent, blockId) ==
    IF RegExpThrows(blockId) THEN Thrown
    ELSE LET g == BlockRegexExec(fileContent, blockId)
             r1 == IF g = Null THEN Null ELSE Trim(g)
             line == FirstLineIncluding(Split(fileContent), <<"^">> \o blockId)
         IN  IF Truthy(r1) THEN r1
             ELSE IF line = Null THEN r1
             ELSE cleanBlockContent(line, blockId)

\* line.match(/^(#{1,6})\s/): the length of group 1, or 0 when no match
HeadingMarker(line) ==
    LET n == HashRun(line, 0)
    IN  IF n >= 1 /\ n <= 6 /\ IsSpace(At(line, n)) THEN n ELSE 0

RECURSIVE FindEndLineStrict(_, _, _)
\* mutant: the scan stops only at a heading of a strictly higher level
\* (`<` for `<=`)
FindEndLineStrict(fileLines, lineNum, headingLevel) ==
    IF lineNum >= Len(fileLines) THEN Len(fileLines)
    ELSE IF HeadingMarker(LineAt(fileLines, lineNum)) >= 1
            /\ HeadingMarker(LineAt(fileLines, lineNum)) < headingLevel
         THEN lineNum
    ELSE FindEndLineStrict(fileLines, lineNum + 1, headingLevel)

RECURSIVE FindEndLine(_, _, _)
\* the forward scan for the next heading of the same or a higher level
FindEndLine(fileLines, lineNum, headingLevel) ==
    IF lineNum >= Len(fileLines) THEN Len(fileLines)
    ELSE IF HeadingMarker(LineAt(fileLines, lineNum)) >= 1
            /\ HeadingMarker(LineAt(fileLines, lineNum)) <= headingLevel
         THEN lineNum
    ELSE FindEndLine(fileLines, lineNum + 1, headingLevel)

\* fileCache.headings.find(h => h.heading.toLowerCase() === headingText.toLowerCase())
FindHeading(idx, headingText) ==
    LET hits == {k \in 1..Len(idx.headings) :
                    ToLowerCase(idx.headings[k].heading) = ToLowerCase(headingText)}
    IN  IF ~idx.present \/ hits = {} THEN 0 ELSE Min(hits)

\* the cache branch of a heading reference; Null when the index has no
\* such heading
HeadingFromCache(fileContent, idx, headingText) ==
    LET h == FindHeading(idx, headingText)
        fileLines == Split(fileContent)
    IN  IF h = 0 THEN Null
        ELSE LET headingLevel == idx.headings[h].level
                 headingLine == idx.headings[h].line
                 endLine == FindEndLine(fileLines, headingLine + 1, headingLevel)
             IN  Trim(Join(SliceLines(fileLines, headingLine, endLine)))

\* offset p is where `^` matches under the m flag
IsLineStart(s, p) == p = 0 \/ IsLineTerminator(At(s, p - 1))

\* the offsets where `^(#{1,6})\s+<heading>` matches, heading escaped
HeadingLevelHits(s, heading) ==
    {p \in 0..Len(s) :
        LET n == HashRun(s, p)
            w == WsRun(s, p + n)
        IN  /\ IsLineStart(s, p)
            /\ n >= 1 /\ n <= 6 /\ w >= 1
            /\ StartsWithAt(s, heading, p + n + w)}

\* the offset just after `#{n}\s+<heading>` matched at p
AfterHeading(s, p, heading) ==
    p + HashRun(s, p) + WsRun(s, p + HashRun(s, p)) + Len(heading)

\* a line start followed by `#{1,level}\s`
IsBoundaryAt(s, q, level) ==
    LET n == HashRun(s, q)
    IN  IsLineStart(s, q) /\ n >= 1 /\ n <= level /\ IsSpace(At(s, q + n))

\* the regular expressions of getHeadingContent applied to fileContent:
\* group 1 of the heading pattern, trimmed, or Null
HeadingRegex(s, heading) ==
    LET levelHits == HeadingLevelHits(s, heading)
    IN  IF levelHits = {} THEN Null
        ELSE LET headingLevel == HashRun(s, Min(levelHits))
                 \* `^#{L}\s+<heading>.*?$` followed by "\n"
                 hits == {p \in levelHits :
                             /\ HashRun(s, p) = headingLevel
                             /\ LineEnd(s, AfterHeading(s, p, heading)) < Len(s)}
             IN  IF hits = {} THEN Null
                 ELSE LET e == LineEnd(s, AfterHeading(s, Min(hits), heading))
                          \* (\n[\s\S]*?)(?=^#{1,L}\s|$): lazily up to a boundary
                          \* heading or to the first end of line
                          stop == IF IsBoundaryAt(s, e + 1, headingLevel)
                                  THEN e + 1
                                  ELSE LineEnd(s, e + 1)
                      IN  Trim(Slice(s, e, stop))

\* ------------------------------------------------------------------------
\* Inputs: editor texts, vault contents, settings
\* ------------------------------------------------------------------------

\* the largest number of segments an editor text is built from
MaxSegs == 3

MdExt == <<".", "m", "d">>

\* the one note of the vault that directives can reach
FileA == <<"A">> \o MdExt

\* activeView.file.name
ActiveFileName == <<"N">> \o MdExt

EmbedFull == <<"!", "[", "[", "A", "]", "]">>
EmbedMissing == <<"!", "[", "[", " ", "M", " ", "]", "]">>
EmbedBlock == <<"!", "[", "[", "A", "#", "^", "b", "]", "]">>
EmbedHeading == <<"!", "[", "[", "A", "#", "h", "]", "]">>
EmbedParen == <<"!", "[", "[", "A", "#", "^", "(", "]", "]">>

\* the pieces editor texts are concatenated from
Segments == {<<"x">>, <<NL>>, EmbedFull, EmbedMissing, EmbedBlock, EmbedHeading, EmbedParen}

RECURSIVE SegTexts(_)
\* all concatenations of at most n segments
SegTexts(n) ==
    IF n = 0 THEN {<<>>}
    ELSE LET prev == SegTexts(n - 1)
         IN  prev \cup {t \o g : t \in prev, g \in Segments}

EditorTexts == SegTexts(MaxSegs)

\* texts with link syntax that is not an embed directive
ExtraTexts ==
    {<<"x", "[", "[", "A", "]", "]">>,
     <<"[", "[", "A", "]", "]", NL>>,
     <<"x", "!", "[", "[", "A">>}

DocEmpty == <<>>
DocBlock == <<" ", "x", " ", "^", "b">>
DocHeadings == <<"#", " ", "h", NL, "y", NL, "#", "#", " ", "a", NL, "#", " ", "c">>
DocPlain == <<"x">>
DocLoneAnchor == <<"x", NL, "^", "b">>

IndexEmpty == [present |-> TRUE, headings |-> <<>>, blocks |-> <<>>]
IndexBlock == [present |-> TRUE, headings |-> <<>>, blocks |-> <<[id |-> <<"b">>, line |-> 0]>>]
IndexHeadings ==
    [present |-> TRUE,
     headings |-> <<[heading |-> <<"h">>, level |-> 1, line |-> 0],
                    [heading |-> <<"a">>, level |-> 2, line |-> 2],
                    [heading |-> <<"c">>, level |-> 1, line |-> 3]>>,
     blocks |-> <<>>]

\* raw text of A.md with the index the host holds for it
VaultConfigs ==
    {[text |-> DocEmpty, index |-> NoCache],
     [text |-> DocBlock, index |-> NoCache],
     [text |-> DocBlock, index |-> IndexBlock],
     [text |-> DocHeadings, index |-> NoCache],
     [text |-> DocHeadings, index |-> IndexHeadings],
     [text |-> DocPlain, index |-> IndexEmpty],
     [text |-> DocLoneAnchor, index |-> NoCache]}

\* the largest number of lines of a generated heading document
MaxLines == 3

HeadingLineChoices ==
    {<<"#", " ", "h">>, <<"#", "#", " ", "h">>, <<"#", "#", " ", "a">>, <<"#", " ", "c">>,
     <<"#", "y">>, <<"y">>, <<>>}

RECURSIVE LineSeqs(_)
\* all sequences of 1..n lines
LineSeqs(n) ==
    IF n = 1 THEN {<<l>> : l \in HeadingLineChoices}
    ELSE LET prev == LineSeqs(n - 1)
         IN  prev \cup {Append(ls, l) : ls \in prev, l \in HeadingLineChoices}

HeadingDocs == {Join(ls) : ls \in LineSeqs(MaxLines)}

RECURSIVE HeadingEntries(_, _)
\* the heading list the host derives from the lines of a document, from
\* line n (0-based) on
HeadingEntries(fileLines, n) ==
    IF n >= Len(fileLines) THEN <<>>
    ELSE LET line == fileLines[n + 1]
             k == HeadingMarker(line)
         IN  (IF k >= 1 /\ Trim(SliceFrom(line, k)) # <<>>
              THEN <<[heading |-> Trim(SliceFrom(line, k)), level |-> k, line |-> n]>>
              ELSE <<>>) \o HeadingEntries(fileLines, n + 1)

\* an index consistent with the raw text (documents without block anchors)
ConsistentIndex(text) ==
    [present |-> TRUE, headings |-> HeadingEntries(Split(text), 0), blocks |-> <<>>]

\* the generated heading documents, with and without an index
HeadingConfigs ==
    {[text |-> d, index |-> ConsistentIndex(d)] : d \in HeadingDocs}
        \cup {[text |-> d, index |-> NoCache] : d \in HeadingDocs}

HeadingEditorTexts ==
    {Null, EmbedHeading, <<"x">> \o EmbedHeading, EmbedMissing \o <<NL>> \o EmbedHeading}

DefaultSettings ==
    [removeMetadata |-> TRUE, removeBlockIds |-> TRUE,
     copyButtonPosition |-> "ribbon", saveButtonPosition |-> "ribbon",
     defaultSaveLocation |-> <<>>, fileNamePrefix |-> <<"P">>, openNewFile |-> TRUE]

SettingsChoices ==
    {DefaultSettings,
     [DefaultSettings EXCEPT !.removeMetadata = FALSE, !.removeBlockIds = FALSE,
                             !.defaultSaveLocation = <<"o">> \o MdExt,
                             !.openNewFile = FALSE],
     [DefaultSettings EXCEPT !.defaultSaveLocation = FileA]}

\* ------------------------------------------------------------------------
\* Collaborator (host) capabilities
\* ------------------------------------------------------------------------

\* metadataCache.getFirstLinkpathDest(filePath, ""): the file, or Null
resolveLink(filePath) ==
    IF filePath \o MdExt \in DOMAIN vault THEN filePath \o MdExt
    ELSE IF filePath \in DOMAIN vault THEN filePath
    ELSE Null

\* metadataCache.getFileCache(file)
getFileCache(file) == IF file \in DOMAIN cache THEN cache[file] ELSE NoCache

\* the locals of an OneClickClipboard call that has not started
IdleCall ==
    [pc |-> "idle", content |-> <<>>, matches |-> <<>>, i |-> -1, err |-> "none"]

\* the plugin's fields as their initialisers leave them (main.ts 308-315),
\* before onload has run: no ribbon icon, no floating container in the
\* document, no container reference, no timer.  `burst` counts the calls of
\* updateAllFloatingButtonPositions since the last timer expiry and
\* `lastBurst` the calls the last expiry answered.
Constructed ==
    [loaded |-> FALSE,
     ribbon |-> [copy |-> 0, save |-> 0],
     dom |-> {},
     floatingCopyContainer |-> "null",
     floatingSaveContainer |-> "null",
     floatingButtonsContainer |-> "null",
     positionUpdateTimeout |-> 0,
     timers |-> {},
     burst |-> 0,
     lastBurst |-> 0]

\* the state after construction, for given sets of editor texts, vault
\* contents and settings
InitWith(texts, configs, settingsSet) ==
    /\ gui = Constructed
    /\ rev \in {RevMain, RevPart1}
    /\ \E v \in configs :
          /\ vault = [f \in {FileA} |-> v.text]
          /\ cache = [f \in {FileA} |-> v.index]
    /\ settings \in settingsSet
    /\ editorText \in texts
    /\ op = "none"
    /\ pc = "idle"
    /\ content = <<>>
    /\ original = <<>>
    /\ matches = <<>>
    /\ i = -1
    /\ calls = <<>>
    /\ splices = <<>>
    /\ clipboard = Null
    /\ notices = <<>>
    /\ created = <<>>
    /\ opened = <<>>
    /\ err = "none"
    /\ targetPath = <<>>
    /\ other = IdleCall

Init == InitWith(EditorTexts \cup ExtraTexts \cup {Null}, VaultConfigs, SettingsChoices)

\* ------------------------------------------------------------------------
\* resolveBlockReferences: one loop iteration per directive, split at awaits
\* ------------------------------------------------------------------------

\* "[File not found: "
FileNotFoundPrefix ==
    <<"[", "F", "i", "l", "e", " ", "n", "o", "t", " ", "f", "o", "u", "n", "d", ":", " ">>

\* "[Content not found: "
ContentNotFoundPrefix ==
    <<"[", "C", "o", "n", "t", "e", "n", "t", " ", "n", "o", "t", " ", "f", "o", "u", "n", "d", ":", " ">>

\* `[File not found: ${filePath}]`
FileNotFoundText(filePath) == FileNotFoundPrefix \o filePath \o <<"]">>

\* `[Content not found: ${filePath}${hashPart ? '#' + hashPart : ''}]`
ContentNotFoundText(filePath, hashPart) ==
    ContentNotFoundPrefix \o filePath
        \o (IF hashPart # <<>> THEN <<"#">> \o hashPart ELSE <<>>) \o <<"]">>

\* content.slice(0, match.index) + ins + content.slice(match.index + fullMatch.length)
SpliceText(c, m, ins) == Slice(c, 0, m.index) \o ins \o SliceFrom(c, m.index + m.length)

\* preserveLeadingNewline + replacement + preserveTrailingNewline
Padded(c, m, replacement) ==
    LET beforeEmbed == IF m.index > 0 THEN At(c, m.index - 1) ELSE ""
        afterEmbed == IF m.index + m.length < Len(c) THEN At(c, m.index + m.length) ELSE ""
        preserveLeadingNewline == IF beforeEmbed = NL THEN <<NL>> ELSE <<>>
        preserveTrailingNewline == IF afterEmbed = NL THEN <<NL>> ELSE <<>>
    IN  preserveLeadingNewline \o replacement \o preserveTrailingNewline

\* the text that takes the place of the directive once its replacement is known
Insertion(c, m, replacement) ==
    IF Truthy(replacement) THEN Padded(c, m, replacement)
    ELSE ContentNotFoundText(FilePathOf(m), HashPartOf(m))

\* for (let i = matches.length - 1; ...
FirstIndex(ms) == Len(ms) - 1

\* ...; i--)
StepIndex(k) == k - 1

\* if (!match || !match.index) continue;   (main.ts only)
SkipsMatch(m) == rev = RevMain /\ m.index = 0

\* hashPart.startsWith("^")
IsBlockRef(hashPart) == hashPart # <<>> /\ hashPart[1] = "^"

\* the replacement computed right after the first read returns; Null or ""
\* for a heading sends the pass to getHeadingContent
ReplacementAfterRead(m, fileContent, fileCache) ==
    LET hashPart == HashPartOf(m)
    IN  IF IsBlockRef(hashPart)
        THEN LET blockId == SliceFrom(hashPart, 1)
             IN  IF HasBlockEntry(fileCache, blockId)
                 THEN BlockFromCache(fileContent, fileCache, blockId)
                 ELSE BlockFallback(fileContent, blockId)
        ELSE IF hashPart # <<>>
        THEN HeadingFromCache(fileContent, fileCache, hashPart)
        ELSE fileContent

\* the heading branch falls back to getHeadingContent
NeedsHeadingFallback(m, replacement) ==
    ~IsBlockRef(HashPartOf(m)) /\ HashPartOf(m) # <<>> /\ ~Truthy(replacement)

Cur == matches[i + 1]

\* which branch of the loop body produced the replacement
RouteAfterRead(m, fileCache) ==
    IF IsBlockRef(HashPartOf(m))
    THEN IF HasBlockEntry(fileCache, SliceFrom(HashPartOf(m), 1)) THEN "blockCache" ELSE "blockFallback"
    ELSE IF HashPartOf(m) # <<>> THEN "headingCache"
    ELSE "fullFile"

\* one entry of the splice log: the directive, the branch taken, the text
\* before the splice, the replacement value and the text put in its place
LogSplice(route, replacement, ins) ==
    Append(splices, [i |-> i, route |-> route, before |-> content,
                     replacement |-> replacement, ins |-> ins])

\* mutant: block ids are removed before the front matter
StartExportSwapped(o) ==
    /\ pc = "idle"
    /\ editorText # Null
    /\ LET c0 == editorText
           c1 == IF settings.removeBlockIds THEN cleanAllBlockIds(c0) ELSE c0
           c2 == IF settings.removeMetadata THEN RemoveMetadata(c1) ELSE c1
       IN  /\ content' = c2
           /\ original' = c2
           /\ matches' = MatchAll(c2)
           /\ i' = FirstIndex(MatchAll(c2))
    /\ op' = o
    /\ pc' = "loop"
    /\ UNCHANGED <<env, vault, calls, splices, ui, err>>

\* the handler reads the editor, strips, discovers the directives and
\* enters the loop
StartExport(o) ==
    /\ pc = "idle"
    /\ editorText # Null
    /\ LET c0 == editorText
           c1 == IF settings.removeMetadata THEN RemoveMetadata(c0) ELSE c0
           c2 == IF settings.removeBlockIds THEN cleanAllBlockIds(c1) ELSE c1
       IN  /\ content' = c2
           /\ original' = c2
           /\ matches' = MatchAll(c2)
           /\ i' = FirstIndex(MatchAll(c2))
    /\ op' = o
    /\ pc' = "loop"
    /\ UNCHANGED <<env, vault, calls, splices, ui, err>>

\* getActiveViewOfType returned nothing
NoActiveView(o) ==
    /\ pc = "idle"
    /\ editorText = Null
    /\ op' = o
    /\ notices' = Append(notices, "No active markdown view found.")
    /\ pc' = "done"
    /\ UNCHANGED <<env, vault, content, original, matches, i, calls, splices, clipboard, created, opened, targetPath, err>>

\* main.ts: a match whose index is 0 is passed over
SkipDirective ==
    /\ pc = "loop"
    /\ i >= 0
    /\ SkipsMatch(Cur)
    /\ i' = StepIndex(i)
    /\ UNCHANGED <<env, vault, op, pc, content, original, matches, calls, splices, ui, err>>

\* the link target resolves to no file: the diagnostic is spliced in
FileNotFound ==
    /\ pc = "loop"
    /\ i >= 0
    /\ ~SkipsMatch(Cur)
    /\ resolveLink(FilePathOf(Cur)) = Null
    /\ calls' = Append(calls, <<"resolveLink", i>>)
    /\ content' = SpliceText(content, Cur, FileNotFoundText(FilePathOf(Cur)))
    /\ splices' = LogSplice("fileNotFound", Null, FileNotFoundText(FilePathOf(Cur)))
    /\ i' = StepIndex(i)
    /\ UNCHANGED <<env, vault, op, pc, original, matches, ui, err>>

\* mutant: the read of the next directive is issued along with the
\* current one
IssueReadAhead ==
    /\ pc = "loop"
    /\ i >= 0
    /\ ~SkipsMatch(Cur)
    /\ resolveLink(FilePathOf(Cur)) # Null
    /\ calls' = calls \o <<<<"resolveLink", i>>, <<"read", i>>>>
                      \o (IF i >= 1 THEN <<<<"read", i - 1>>>> ELSE <<>>)
    /\ pc' = "read"
    /\ UNCHANGED <<env, vault, op, content, original, matches, i, splices, ui, err>>

\* the link target resolves: vault.read is issued and awaited
IssueRead ==
    /\ pc = "loop"
    /\ i >= 0
    /\ ~SkipsMatch(Cur)
    /\ resolveLink(FilePathOf(Cur)) # Null
    /\ calls' = calls \o <<<<"resolveLink", i>>, <<"read", i>>>>
    /\ pc' = "read"
    /\ UNCHANGED <<env, vault, op, content, original, matches, i, splices, ui, err>>

\* vault.read resolves: the cache is fetched and the replacement computed
ReadReturns ==
    /\ pc = "read"
    /\ LET targetFile == resolveLink(FilePathOf(Cur))
           fileContent == vault[targetFile]
           fileCache == getFileCache(targetFile)
           replacement == ReplacementAfterRead(Cur, fileContent, fileCache)
       IN  IF replacement = Thrown
           THEN /\ calls' = Append(calls, <<"getFileCache", i>>)
                /\ pc' = "rejected"
                /\ err' = "SyntaxError"
                /\ UNCHANGED <<content, splices, i>>
           ELSE IF NeedsHeadingFallback(Cur, replacement)
           THEN /\ calls' = calls \o <<<<"getFileCache", i>>, <<"resolveLink", i>>, <<"read", i>>>>
                /\ pc' = "headingRead"
                /\ UNCHANGED <<content, splices, i, err>>
           ELSE /\ calls' = Append(calls, <<"getFileCache", i>>)
                /\ content' = SpliceText(content, Cur, Insertion(content, Cur, replacement))
                /\ splices' = LogSplice(RouteAfterRead(Cur, fileCache), replacement,
                                        Insertion(content, Cur, replacement))
                /\ i' = StepIndex(i)
                /\ pc' = "loop"
                /\ UNCHANGED err
    /\ UNCHANGED <<env, vault, op, original, matches, ui>>

\* mutant: the rejected read is caught inside the loop, the directive
\* degrades to the diagnostic and the pass goes on
ReadThrowsSwallowed ==
    /\ pc = "read"
    /\ err' = "read"
    /\ content' = SpliceText(content, Cur, ContentNotFoundText(FilePathOf(Cur), HashPartOf(Cur)))
    /\ splices' = LogSplice("readFailed", Null,
                            ContentNotFoundText(FilePathOf(Cur), HashPartOf(Cur)))
    /\ i' = StepIndex(i)
    /\ pc' = "loop"
    /\ UNCHANGED <<env, vault, op, original, matches, calls, ui>>

\* vault.read rejects: nothing catches it, the handler's promise rejects
ReadThrows ==
    /\ pc = "read"
    /\ pc' = "rejected"
    /\ err' = "read"
    /\ UNCHANGED <<env, vault, op, content, original, matches, i, calls, splices, ui>>

\* the read inside getHeadingContent resolves
HeadingReadReturns ==
    /\ pc = "headingRead"
    /\ LET file == resolveLink(FilePathOf(Cur))
           replacement == HeadingRegex(vault[file], HashPartOf(Cur))
       IN  /\ content' = SpliceText(content, Cur, Insertion(content, Cur, replacement))
           /\ splices' = LogSplice("headingFallback", replacement,
                                   Insertion(content, Cur, replacement))
    /\ i' = StepIndex(i)
    /\ pc' = "loop"
    /\ UNCHANGED <<env, vault, op, original, matches, calls, ui, err>>

\* the read inside getHeadingContent rejects
HeadingReadThrows ==
    /\ pc = "headingRead"
    /\ pc' = "rejected"
    /\ err' = "read"
    /\ UNCHANGED <<env, vault, op, content, original, matches, i, calls, splices, ui>>

\* ------------------------------------------------------------------------
\* The tail of OneClickClipboard and saveToFile
\* ------------------------------------------------------------------------

\* name.replace('.md', ''): the first occurrence is removed
RemoveFirstMd(name) ==
    LET hits == {q \in 0..Len(name) : StartsWithAt(name, MdExt, q)}
    IN  IF hits = {} THEN name
        ELSE Slice(name, 0, Min(hits)) \o SliceFrom(name, Min(hits) + 3)

\* `${this.settings.fileNamePrefix}${fileName}.md`
SuggestedName == settings.fileNamePrefix \o RemoveFirstMd(ActiveFileName) \o MdExt

\* targetPath.endsWith('.md')
EndsWithMd(path) == Len(path) >= 3 /\ SliceFrom(path, Len(path) - 3) = MdExt

\* what the user may type in the save prompt
PromptInputs == {SuggestedName, <<"A">>, <<"q">> \o MdExt}

\* existingFile instanceof TFile
FileExists(path) == path \in DOMAIN vault

\* after targetPath is known: the overwrite confirmation or vault.create
AfterTargetPath(path) == IF FileExists(path) THEN "confirm" ELSE "create"

\* resolveBlockReferences returns; the handler goes on to its own await
ReturnResolved ==
    /\ pc = "loop"
    /\ i < 0
    /\ IF op = "copy"
       THEN /\ pc' = "clipboardWrite"
            /\ UNCHANGED targetPath
       ELSE /\ targetPath' = settings.defaultSaveLocation
            /\ pc' = IF settings.defaultSaveLocation = <<>> THEN "prompt"
                     ELSE AfterTargetPath(settings.defaultSaveLocation)
    /\ UNCHANGED <<env, vault, op, content, original, matches, i, calls, splices,
                   clipboard, notices, created, opened, err>>

\* navigator.clipboard.writeText resolves, the notice is shown
ClipboardWritten ==
    /\ pc = "clipboardWrite"
    /\ clipboard' = content
    /\ notices' = Append(notices, "Copied markdown content to clipboard!")
    /\ pc' = "done"
    /\ UNCHANGED <<env, vault, op, content, original, matches, i, calls, splices,
                   created, opened, targetPath, err>>

\* Save button or Enter key of SaveFileModal
PromptSubmit(input) ==
    /\ pc = "prompt"
    /\ LET path == IF EndsWithMd(input) THEN input ELSE input \o MdExt
       IN  /\ targetPath' = path
           /\ pc' = AfterTargetPath(path)
    /\ UNCHANGED <<env, vault, op, content, original, matches, i, calls, splices,
                   clipboard, notices, created, opened, err>>

\* Cancel button of SaveFileModal, or Save with the input emptied
PromptCancel ==
    /\ pc = "prompt"
    /\ pc' = "done"
    /\ UNCHANGED <<env, vault, op, content, original, matches, i, calls, splices, ui, err>>

\* the modal is closed without a button: onSubmit is never called
PromptDismiss ==
    /\ pc = "prompt"
    /\ pc' = "hung"
    /\ UNCHANGED <<env, vault, op, content, original, matches, i, calls, splices, ui, err>>

\* Overwrite button of ConfirmationModal
ConfirmOverwrite ==
    /\ pc = "confirm"
    /\ pc' = "create"
    /\ UNCHANGED <<env, vault, op, content, original, matches, i, calls, splices, ui, err>>

\* mutant: the file is written although the overwrite was declined
DeclineOverwriteCreates ==
    /\ pc = "confirm"
    /\ vault' = [vault EXCEPT ![targetPath] = content]
    /\ notices' = Append(notices, "Content saved to")
    /\ pc' = "done"
    /\ UNCHANGED <<env, op, content, original, matches, i, calls, splices,
                   clipboard, created, opened, targetPath, err>>

\* Cancel button of ConfirmationModal
DeclineOverwrite ==
    /\ pc = "confirm"
    /\ pc' = "done"
    /\ UNCHANGED <<env, vault, op, content, original, matches, i, calls, splices, ui, err>>

\* vault.create resolves: the notice is shown and the file opened if asked
CreateReturns ==
    /\ pc = "create"
    /\ ~FileExists(targetPath)
    /\ vault' = [f \in DOMAIN vault \cup {targetPath} |->
                    IF f = targetPath THEN content ELSE vault[f]]
    /\ created' = Append(created, <<targetPath, content>>)
    /\ notices' = Append(notices, "Content saved to")
    /\ opened' = IF settings.openNewFile THEN Append(opened, targetPath) ELSE opened
    /\ pc' = "done"
    /\ UNCHANGED <<env, op, content, original, matches, i, calls, splices,
                   clipboard, targetPath, err>>

\* vault.create rejects (the path exists already, or an I/O failure): caught
CreateThrows ==
    /\ pc = "create"
    /\ notices' = Append(notices, "Failed to save file. Check console for details.")
    /\ pc' = "done"
    /\ UNCHANGED <<env, vault, op, content, original, matches, i, calls, splices,
                   clipboard, created, opened, targetPath, err>>

Next ==
    \/ \E o \in {"copy", "save"} : StartExport(o)
    \/ \E o \in {"copy", "save"} : NoActiveView(o)
    \/ SkipDirective
    \/ FileNotFound
    \/ IssueRead
    \/ ReadReturns
    \/ ReadThrows
    \/ HeadingReadReturns
    \/ HeadingReadThrows
    \/ ReturnResolved
    \/ ClipboardWritten
    \/ \E input \in PromptInputs : PromptSubmit(input)
    \/ PromptCancel
    \/ PromptDismiss
    \/ ConfirmOverwrite
    \/ DeclineOverwrite
    \/ CreateReturns
    \/ CreateThrows

Spec == Init /\ [][Next]_vars

\* the same handlers over the generated heading documents
InitHeading == InitWith(HeadingEditorTexts, HeadingConfigs, {DefaultSettings})

SpecHeading == InitHeading /\ [][Next]_vars

\* ------------------------------------------------------------------------
\* Properties
\* ------------------------------------------------------------------------

\* resolveBlockReferences has run its loop to the end
ResolveCompleted ==
    /\ editorText # Null
    /\ \/ pc = "loop" /\ i < 0
       \/ pc \in {"clipboardWrite", "prompt", "confirm", "create", "done", "hung"}

\* a directive is about to be processed
InPass == pc \in {"loop", "read", "headingRead"} /\ i >= 0

\* the directive a splice-log entry is about
MatchOf(e) == matches[e.i + 1]

\* the directive with 0-based number k has a splice-log entry
Spliced(k) == \E n \in 1..Len(splices) : splices[n].i = k

\* the text T has an embed directive between offsets p and q, stated
\* without the scanning order of the regular expression
DirectiveAt(T, p, q) ==
    /\ StartsWithAt(T, <<"!", "[", "[">>, p)
    /\ StartsWithAt(T, <<"]", "]">>, q)
    /\ q >= p + 3
    /\ \/ \A r \in (p + 3)..(q - 1) : ~IsLineTerminator(At(T, r))
       \/ \E h \in (p + 3)..(q - 2) :
             /\ At(T, h) = "#"
             /\ \A r \in (p + 3)..(h - 1) : ~IsLineTerminator(At(T, r))
             /\ \A r \in (h + 1)..(q - 1) : At(T, r) # "]"

ContainsDirective(T) == \E p, q \in 0..Len(T) : DirectiveAt(T, p, q)

\* C1: once resolveBlockReferences has completed, every directive it
\* discovered has been replaced (by content or by one of the two
\* diagnostics), whatever its offset, offset 0 included.
C1_EveryDirectiveReplaced ==
    ResolveCompleted => \A k \in 0..(Len(matches) - 1) : Spliced(k)

\* C2: directives are spliced in strictly decreasing start offset, and
\* whenever a directive is about to be processed or spliced the working
\* text up to the end of its span is still the original text, so the
\* recorded span holds the directive's own text.
C2_SpliceOrder ==
    /\ \A a, b \in 1..Len(splices) :
          a < b => MatchOf(splices[a]).index > MatchOf(splices[b]).index
    /\ \A n \in 1..Len(splices) :
          LET e == MatchOf(splices[n]).index + MatchOf(splices[n]).length
          IN  Slice(splices[n].before, 0, e) = Slice(original, 0, e)
    /\ InPass => Slice(content, 0, Cur.index + Cur.length)
                    = Slice(original, 0, Cur.index + Cur.length)

\* two directives have been spliced and the first replacement (the one
\* to the right) did not have the length of the directive it replaced
C2_Witness ==
    /\ Len(splices) >= 2
    /\ Len(splices[1].ins) # MatchOf(splices[1]).length

\* C3: for a text without embed directive the pass leaves the text as it
\* was and makes no collaborator call.
C3_NoDirectiveUnchanged ==
    (op # "none" /\ editorText # Null /\ ~ContainsDirective(original))
        => content = original /\ calls = <<>>

\* a text with a plain [[link]] and no embed went through the whole copy
C3_Witness ==
    /\ pc = "done"
    /\ op = "copy"
    /\ original # <<>>
    /\ Includes(original, <<"[", "[">>)
    /\ ~ContainsDirective(original)
    /\ clipboard = original

\* the raw text of the file a directive points at (the link resolves)
RawOf(m) == vault[resolveLink(FilePathOf(m))]

\* the replacement with a newline on neither, either or both sides
WithOptionalNewlines(t) == {t, <<NL>> \o t, t \o <<NL>>, <<NL>> \o t \o <<NL>>}

\* C4: a full-file directive whose target resolves is replaced by the
\* document's raw text, whatever that text is (the empty text included),
\* never by a diagnostic.
C4_FullFileVerbatim ==
    \A n \in 1..Len(splices) :
        splices[n].route = "fullFile"
            => splices[n].ins \in WithOptionalNewlines(RawOf(MatchOf(splices[n])))

\* C5: splicing resolved content adds no newline: the newlines next to
\* the span are the ones that were there, so the text put in place of the
\* span is the replacement alone.
C5_NewlinesPreserved ==
    \A n \in 1..Len(splices) :
        Truthy(splices[n].replacement) => splices[n].ins = splices[n].replacement

\* the collaborator call <<kind, k>> was made
Called(kind, k) == \E c \in 1..Len(calls) : calls[c] = <<kind, k>>

\* C6: every directive whose link target resolves to no document ends up
\* replaced by exactly `[File not found: <trimmed path>]`, the rest of the
\* text untouched, with no read and no index fetch made for it.
C6_FileNotFoundDiagnostic ==
    ResolveCompleted =>
        \A k \in 0..(Len(matches) - 1) :
            resolveLink(Trim(matches[k + 1].g1)) = Null =>
                /\ ~Called("read", k)
                /\ ~Called("getFileCache", k)
                /\ \E n \in 1..Len(splices) :
                      LET e == splices[n]
                          lit == FileNotFoundPrefix \o Trim(matches[k + 1].g1) \o <<"]">>
                      IN  /\ e.i = k
                          /\ e.ins = lit

\* the scope of a block or heading directive, as written (trimmed)
ScopeOf(m) == Trim(m.g2)

\* the scope text occurs nowhere in the index of the file
NotInIndex(idx, scope) ==
    /\ \A k \in 1..Len(idx.blocks) : <<"^">> \o idx.blocks[k].id # scope
    /\ \A k \in 1..Len(idx.headings) :
          ToLowerCase(idx.headings[k].heading) # ToLowerCase(scope)

\* C7: every block or heading directive whose file exists but whose scope
\* occurs neither in the index nor in the raw text ends up replaced by
\* exactly `[Content not found: <path>#<scope>]`.
C7_ContentNotFoundDiagnostic ==
    ResolveCompleted =>
        \A k \in 0..(Len(matches) - 1) :
            LET m == matches[k + 1]
            IN  (/\ m.hasG2
                 /\ resolveLink(Trim(m.g1)) # Null
                 /\ NotInIndex(getFileCache(resolveLink(Trim(m.g1))), ScopeOf(m))
                 /\ ~Includes(RawOf(m), ScopeOf(m)))
                => \E n \in 1..Len(splices) :
                      /\ splices[n].i = k
                      /\ splices[n].ins
                            = ContentNotFoundPrefix \o Trim(m.g1) \o <<"#">> \o ScopeOf(m) \o <<"]">>

\* C8: unless a collaborator call throws, the pass never rejects,
\* whatever characters the scope of a directive is made of.
C8_NeverAbortsOnContent == pc = "rejected" => err = "read"

\* C9: when a read throws the handler's promise rejects there and then:
\* no call has been made for the directives still to come, nothing is on
\* the clipboard, no file is created or opened, no notice is shown.
C9_ReadFailureAborts ==
    err = "read" =>
        /\ pc = "rejected"
        /\ \A c \in 1..Len(calls) : calls[c][2] >= i
        /\ clipboard = Null
        /\ created = <<>>
        /\ opened = <<>>
        /\ notices = <<>>
        /\ DOMAIN vault = {FileA}

\* a read failed after one directive had been spliced and with at least
\* one directive still to come
C9_Witness ==
    /\ err = "read"
    /\ Len(splices) >= 1
    /\ i >= 1

\* a line that is a heading marker of a level up to `level`: 1 to 6 `#`,
\* then whitespace
IsMarkerLine(line, level) ==
    \E n \in 1..6 :
        /\ n <= level
        /\ Len(line) > n
        /\ \A j \in 1..n : line[j] = "#"
        /\ IsSpace(line[n + 1])

\* the index entry a heading directive selects: the first whose text is
\* the scope, case-insensitively
EntryOf(m) ==
    LET hs == getFileCache(resolveLink(FilePathOf(m))).headings
    IN  hs[Min({k \in 1..Len(hs) : ToLowerCase(hs[k].heading) = ToLowerCase(ScopeOf(m))})]

\* the 0-based line the extraction of m stops before
StopLine(m) ==
    LET fileLines == Split(RawOf(m))
        later == {l \in (EntryOf(m).line + 1)..(Len(fileLines) - 1) :
                    IsMarkerLine(fileLines[l + 1], EntryOf(m).level)}
    IN  IF later = {} THEN Len(fileLines) ELSE Min(later)

\* the lines from the heading's own line up to the stop line, joined
HeadingSpan(m) == Join(SubSeq(Split(RawOf(m)), EntryOf(m).line + 1, StopLine(m)))

\* C10: the text a heading directive extracts through the index is the
\* lines from the heading's own line up to, excluding, the first later
\* heading marker of a level less than or equal to the target's (or up to
\* the end of the document), joined with newline and trimmed; deeper
\* headings in between are included.
C10_HeadingSpanTrimmed ==
    \A n \in 1..Len(splices) :
        splices[n].route = "headingCache"
            => splices[n].replacement = Trim(HeadingSpan(MatchOf(splices[n])))

\* a heading was extracted through the index, a deeper heading line lies
\* inside the span and a boundary heading ends it before the last line
C10_Witness ==
    \E n \in 1..Len(splices) :
        LET m == MatchOf(splices[n])
        IN  /\ splices[n].route = "headingCache"
            /\ StopLine(m) < Len(Split(RawOf(m)))
            /\ \E l \in (EntryOf(m).line + 1)..(StopLine(m) - 1) :
                  IsMarkerLine(Split(RawOf(m))[l + 1], 6)

\* C11: a heading directive resolved with the index unavailable (the
\* raw-text fallback) extracts the same span as the index path does with
\* an index consistent with the raw text: from the heading line itself to
\* the line before the next heading of a level <= the target's, or to the
\* end of the document.
C11_FallbackEqualsIndexPath ==
    \A n \in 1..Len(splices) :
        LET e == splices[n]
            m == MatchOf(e)
        IN  (e.route = "headingFallback" /\ ~getFileCache(resolveLink(FilePathOf(m))).present)
                => e.replacement
                      = HeadingFromCache(RawOf(m), ConsistentIndex(RawOf(m)), HashPartOf(m))

\* the text t ends with the text u
EndsWith(t, u) == Len(t) >= Len(u) /\ SliceFrom(t, Len(t) - Len(u)) = u

\* a line without its trailing `^<id>` token and without trailing
\* whitespace, its beginning left as it is
WithoutAnchor(line, id) ==
    LET t == TrimEnd(line)
    IN  IF EndsWith(t, <<"^">> \o id)
        THEN TrimEnd(Slice(t, 0, Len(t) - Len(id) - 1))
        ELSE t

\* C12: a block directive whose id has an entry in the index is replaced
\* through the index alone: by the line at the entry's start line, without
\* the trailing `^<id>` token and trailing whitespace, its leading
\* whitespace preserved.
C12_BlockFromIndex ==
    \A n \in 1..Len(splices) :
        LET e == splices[n]
            m == MatchOf(e)
            idx == getFileCache(resolveLink(FilePathOf(m)))
            id == SliceFrom(HashPartOf(m), 1)
        IN  (e.route \in {"blockCache", "blockFallback"} /\ HasBlockEntry(idx, id))
                => /\ e.route = "blockCache"
                   /\ e.replacement
                         = WithoutAnchor(Split(RawOf(m))[BlockLine(idx, id) + 1], id)

\* ------------------------------------------------------------------------
\* The stripping stages over texts with front matter and block anchors
\* ------------------------------------------------------------------------

\* the largest number of segments a text for the stripping stages is built from
MaxStripSegs == 3

DashLine == <<"-", "-", "-", NL>>
TextLine == <<"x", NL>>
FrontMatter == <<"-", "-", "-", NL, "x", NL, "-", "-", "-", NL>>
AnchorLine == <<" ", "y", " ", "^", "b", NL>>
DashAnchorLine == <<"-", "-", "-", " ", "^", "b", NL>>

\* the stripping example of the specification and its expected result
ExampleText ==
    <<"-", "-", "-", NL, "t", "a", "g", "s", ":", " ", "x", NL, "-", "-", "-", NL, "B", "o", "d", "y", " ", "^", "i", "d", "1", NL>>
ExampleResult == <<"B", "o", "d", "y", NL>>

StripSegments ==
    {DashLine, TextLine, FrontMatter, AnchorLine, DashAnchorLine, <<"x">>,
     EmbedHeading, EmbedMissing}

RECURSIVE StripSegTexts(_)
\* all concatenations of at most n segments
StripSegTexts(n) ==
    IF n = 0 THEN {<<>>}
    ELSE LET prev == StripSegTexts(n - 1)
         IN  prev \cup {t \o g : t \in prev, g \in StripSegments}

StripTexts == StripSegTexts(MaxStripSegs) \cup {ExampleText, Null}

\* the five combinations of settings the stripping stages are run under
StripSettings ==
    SettingsChoices
        \cup {[DefaultSettings EXCEPT !.removeBlockIds = FALSE],
              [DefaultSettings EXCEPT !.removeMetadata = FALSE]}

InitStrip ==
    InitWith(StripTexts, {[text |-> DocHeadings, index |-> NoCache]}, StripSettings)

SpecStrip == InitStrip /\ [][Next]_vars

\* an export has started with front-matter removal alone enabled, so that
\* `original` is the text right after that stage
MetadataStageAlone ==
    /\ op # "none"
    /\ editorText # Null
    /\ settings.removeMetadata
    /\ ~settings.removeBlockIds

\* the number of the first line after the opening one that consists of
\* `---` and has its newline, or 0
ClosingLine(t) ==
    LET fileLines == Split(t)
        hits == {k \in 2..(Len(fileLines) - 1) : fileLines[k] = <<"-", "-", "-">>}
    IN  IF fileLines[1] = <<"-", "-", "-">> /\ hits # {} THEN Min(hits) ELSE 0

\* the text begins with a `---` line, any lines (none included) and a
\* `---` line with its newline
HasLeadingBlock(t) == ClosingLine(t) # 0

\* the text after the leading block
WithoutLeadingBlock(t) ==
    Join(SubSeq(Split(t), ClosingLine(t) + 1, Len(Split(t))))

\* C13: with removeMetadata enabled, a text that begins with a `---` line,
\* any content (none included) and a `---` line with its newline loses
\* exactly that leading block: the deletion ends at the first closing
\* `---` line and nothing after it is removed.
C13_LeadingBlockDeleted ==
    (MetadataStageAlone /\ HasLeadingBlock(editorText))
        => original = WithoutLeadingBlock(editorText)

\* C14: front-matter removal changes nothing when the text does not begin
\* with a `---` line at offset 0, removes at most one block, and leaves
\* everything after the leading block, a later `---` block included, as
\* it was.
C14_FrontMatterFrame ==
    MetadataStageAlone =>
        /\ ~StartsWithAt(editorText, DashLine, 0) => original = editorText
        /\ ~HasLeadingBlock(editorText) => original = editorText
        /\ HasLeadingBlock(editorText)
              => EndsWith(original, WithoutLeadingBlock(editorText))

\* an export has started with block-id removal alone enabled, so that
\* `original` is the text right after that stage
BlockIdStageAlone ==
    /\ op # "none"
    /\ editorText # Null
    /\ settings.removeBlockIds
    /\ ~settings.removeMetadata

\* a line without trailing whitespace and without a trailing
\* `^<alphanumeric id>` token, everything before them kept
StripTrailingAnchor(line) ==
    LET t == TrimEnd(line)
        hits == {a \in 0..(Len(t) - 2) :
                    /\ At(t, a) = "^"
                    /\ \A j \in (a + 1)..(Len(t) - 1) : At(t, j) \in Alnum}
    IN  IF hits = {} THEN t ELSE TrimEnd(Slice(t, 0, Min(hits)))

\* C15: cleanAllBlockIds keeps the number of lines and takes from each
\* line only a trailing `^<alphanumeric id>` token and trailing
\* whitespace: the leading whitespace and every other character stay.
C15_OnlyTrailingAnchorRemoved ==
    BlockIdStageAlone =>
        /\ Len(Split(original)) = Len(Split(editorText))
        /\ \A k \in 1..Len(Split(editorText)) :
              Split(original)[k] = StripTrailingAnchor(Split(editorText)[k])

\* both stripping flags are on
BothFlags == settings.removeMetadata /\ settings.removeBlockIds

\* the text after front-matter removal, then block-id removal, each if enabled
Stripped(t) ==
    LET afterMetadata == IF settings.removeMetadata THEN RemoveMetadata(t) ELSE t
    IN  IF settings.removeBlockIds THEN cleanAllBlockIds(afterMetadata) ELSE afterMetadata

\* C16: in both handlers front-matter removal comes first, block-id
\* removal second, embed resolution third (it starts from the stripped
\* text) and the clipboard write or the file creation last (it takes the
\* resolved text); with both flags on, the input
\* `---\ntags: x\n---\nBody ^id1\n` becomes `Body\n`.
C16_StageOrder ==
    /\ (op # "none" /\ editorText # Null) => original = Stripped(editorText)
    /\ splices # <<>> => splices[1].before = original
    /\ clipboard # Null => ResolveCompleted /\ op = "copy" /\ clipboard = content
    /\ created # <<>> => ResolveCompleted /\ op = "save" /\ created[1][2] = content
    /\ (op # "none" /\ editorText = ExampleText /\ BothFlags)
          => /\ content = ExampleResult
             /\ clipboard \in {Null, ExampleResult}
             /\ \A n \in 1..Len(created) : created[n][2] = ExampleResult

\* the example text was copied with both flags on
C16_Witness ==
    /\ editorText = ExampleText
    /\ BothFlags
    /\ op = "copy"
    /\ pc = "done"
    /\ clipboard = ExampleResult

\* the line ends in a block-anchor token `^<alphanumeric id>`
EndsInAnchor(line) ==
    \E a \in 0..(Len(line) - 2) :
        /\ At(line, a) = "^"
        /\ \A j \in (a + 1)..(Len(line) - 1) : At(line, j) \in Alnum

\* no line of the text ends in a block-anchor token
NoAnchorLine(t) == \A k \in 1..Len(Split(t)) : ~EndsInAnchor(Split(t)[k])

\* C17: with Remove Block IDs enabled, what is copied or saved has no line
\* ending in a block-anchor token, the lines brought in by resolving
\* full-file, heading and block embeds included.
C17_NoAnchorInOutput ==
    settings.removeBlockIds =>
        /\ clipboard # Null => NoAnchorLine(clipboard)
        /\ \A n \in 1..Len(created) : NoAnchorLine(created[n][2])

\* ------------------------------------------------------------------------
\* Embedded documents that hold embed directives themselves
\* ------------------------------------------------------------------------

\* A.md with a directive on its block line and one under its heading
DocNested ==
    <<"!", "[", "[", "A", "]", "]", " ", "^", "b", NL, "#", " ", "h", NL, "!", "[", "[", " ", "M", " ", "]", "]">>

IndexNested ==
    [present |-> TRUE,
     headings |-> <<[heading |-> <<"h">>, level |-> 1, line |-> 1]>>,
     blocks |-> <<[id |-> <<"b">>, line |-> 0]>>]

NestedConfigs ==
    {[text |-> DocNested, index |-> NoCache],
     [text |-> DocNested, index |-> IndexNested]}

InitNested == InitWith(EditorTexts \cup {Null}, NestedConfigs, {DefaultSettings})

SpecNested == InitNested /\ [][Next]_vars

\* C18: directives inside the text pulled in from an embedded document
\* are never expanded: the pulled text is in the output verbatim, and the
\* number of directives resolved in a pass is the number of directives
\* found in the text the pass was given.
C18_NoRecursion ==
    /\ Len(splices) <= Len(matches)
    /\ \A n1, n2 \in 1..Len(splices) : n1 # n2 => splices[n1].i # splices[n2].i
    /\ ResolveCompleted =>
          /\ Len(splices) = Len(MatchAll(original))
          /\ \A n \in 1..Len(splices) :
                Truthy(splices[n].replacement) => Includes(content, splices[n].replacement)

\* the part of C18 that is about recursion alone: no more splices than
\* directives of the input, and the pulled text verbatim in the output
NoExpansionOfPulledText ==
    /\ Len(splices) <= Len(matches)
    /\ matches = IF op = "none" \/ editorText = Null THEN <<>> ELSE MatchAll(original)
    /\ ResolveCompleted =>
          \A n \in 1..Len(splices) :
              Truthy(splices[n].replacement) => Includes(content, splices[n].replacement)

\* a pulled text with a directive of its own is in the finished output
PulledDirectiveKept ==
    /\ ResolveCompleted
    /\ \E n \in 1..Len(splices) :
          /\ Truthy(splices[n].replacement)
          /\ ContainsDirective(splices[n].replacement)
          /\ Includes(content, splices[n].replacement)

\* C19: within a pass the collaborator calls are strictly sequential in
\* reverse discovery order: the calls for a directive with a larger offset
\* are over before any call for a directive with a smaller offset begins,
\* and at most one read is outstanding at any time.
C19_SequentialCalls ==
    /\ \A a, b \in 1..Len(calls) : a < b => calls[a][2] >= calls[b][2]
    /\ \A c \in 1..Len(calls) : calls[c][2] >= i
    /\ \A c \in 1..(Len(calls) - 1) : calls[c][1] = "read" => calls[c + 1][1] # "read"
    /\ pc \in {"read", "headingRead"} => calls[Len(calls)] = <<"read", i>>
    /\ (pc \notin {"read", "headingRead", "rejected"} /\ calls # <<>>)
          => calls[Len(calls)][1] # "read" \/ calls[Len(calls)][2] > i

\* a read is outstanding for a directive while the calls of a directive
\* with a larger offset are in the log
C19_Witness ==
    /\ pc = "read"
    /\ \E c \in 1..Len(calls) : calls[c] = <<"read", i + 1>>
    /\ \E c \in 1..Len(calls) : calls[c] = <<"getFileCache", i + 1>>

\* ------------------------------------------------------------------------
\* A second OneClickClipboard call that overlaps the first
\* ------------------------------------------------------------------------

\* the largest number of segments of an editor text exported twice
MaxOverlapSegs == 2

\* everything but the clipboard, the notices and the second call's locals
firstCall == <<rev, vault, cache, settings, editorText, op, pc, content, original,
               matches, i, calls, splices, created, opened, err, targetPath, gui>>

\* the working text of a call: `let content`, a local of the call
WorkingText(c) == c.content

\* the directive the second call is at
OtherCur == other.matches[other.i + 1]

\* mutant: the working text is a field of the plugin, so that the second
\* call's start overwrites the text the first call is working on
OtherStartShared ==
    /\ other.pc = "idle"
    /\ editorText # Null
    /\ LET c0 == editorText
           c1 == IF settings.removeMetadata THEN RemoveMetadata(c0) ELSE c0
           c2 == IF settings.removeBlockIds THEN cleanAllBlockIds(c1) ELSE c1
       IN  /\ other' = [pc |-> "loop", content |-> c2, matches |-> MatchAll(c2),
                        i |-> FirstIndex(MatchAll(c2)), err |-> "none"]
           /\ content' = c2
    /\ UNCHANGED <<rev, vault, cache, settings, editorText, op, pc, original, matches, i,
                   calls, splices, created, opened, err, targetPath, clipboard, notices,
                   gui>>

\* the second call reads the editor, strips, discovers and enters its loop
OtherStart ==
    /\ other.pc = "idle"
    /\ editorText # Null
    /\ LET c0 == editorText
           c1 == IF settings.removeMetadata THEN RemoveMetadata(c0) ELSE c0
           c2 == IF settings.removeBlockIds THEN cleanAllBlockIds(c1) ELSE c1
       IN  other' = [pc |-> "loop", content |-> c2, matches |-> MatchAll(c2),
                     i |-> FirstIndex(MatchAll(c2)), err |-> "none"]
    /\ UNCHANGED <<firstCall, clipboard, notices>>

\* the second call finds no active markdown view
OtherNoActiveView ==
    /\ other.pc = "idle"
    /\ editorText = Null
    /\ notices' = Append(notices, "No active markdown view found.")
    /\ other' = [other EXCEPT !.pc = "done"]
    /\ UNCHANGED <<firstCall, clipboard>>

\* main.ts: a match whose index is 0 is passed over
OtherSkipDirective ==
    /\ other.pc = "loop"
    /\ other.i >= 0
    /\ SkipsMatch(OtherCur)
    /\ other' = [other EXCEPT !.i = StepIndex(other.i)]
    /\ UNCHANGED <<firstCall, clipboard, notices>>

\* the link target resolves to no file
OtherFileNotFound ==
    /\ other.pc = "loop"
    /\ other.i >= 0
    /\ ~SkipsMatch(OtherCur)
    /\ resolveLink(FilePathOf(OtherCur)) = Null
    /\ other' = [other EXCEPT
                    !.content = SpliceText(WorkingText(other), OtherCur,
                                           FileNotFoundText(FilePathOf(OtherCur))),
                    !.i = StepIndex(other.i)]
    /\ UNCHANGED <<firstCall, clipboard, notices>>

\* vault.read is issued and awaited
OtherIssueRead ==
    /\ other.pc = "loop"
    /\ other.i >= 0
    /\ ~SkipsMatch(OtherCur)
    /\ resolveLink(FilePathOf(OtherCur)) # Null
    /\ other' = [other EXCEPT !.pc = "read"]
    /\ UNCHANGED <<firstCall, clipboard, notices>>

\* vault.read resolves
OtherReadReturns ==
    /\ other.pc = "read"
    /\ LET targetFile == resolveLink(FilePathOf(OtherCur))
           replacement == ReplacementAfterRead(OtherCur, vault[targetFile],
                                               getFileCache(targetFile))
       IN  other' =
             IF replacement = Thrown
             THEN [other EXCEPT !.pc = "rejected", !.err = "SyntaxError"]
             ELSE IF NeedsHeadingFallback(OtherCur, replacement)
             THEN [other EXCEPT !.pc = "headingRead"]
             ELSE [other EXCEPT
                      !.content = SpliceText(WorkingText(other), OtherCur,
                                     Insertion(WorkingText(other), OtherCur, replacement)),
                      !.i = StepIndex(other.i),
                      !.pc = "loop"]
    /\ UNCHANGED <<firstCall, clipboard, notices>>

\* vault.read, or the read inside getHeadingContent, rejects
OtherReadThrows ==
    /\ other.pc \in {"read", "headingRead"}
    /\ other' = [other EXCEPT !.pc = "rejected", !.err = "read"]
    /\ UNCHANGED <<firstCall, clipboard, notices>>

\* the read inside getHeadingContent resolves
OtherHeadingReadReturns ==
    /\ other.pc = "headingRead"
    /\ LET replacement == HeadingRegex(vault[resolveLink(FilePathOf(OtherCur))],
                                       HashPartOf(OtherCur))
       IN  other' = [other EXCEPT
                        !.content = SpliceText(WorkingText(other), OtherCur,
                                       Insertion(WorkingText(other), OtherCur, replacement)),
                        !.i = StepIndex(other.i),
                        !.pc = "loop"]
    /\ UNCHANGED <<firstCall, clipboard, notices>>

\* resolveBlockReferences returns to the second call
OtherReturnResolved ==
    /\ other.pc = "loop"
    /\ other.i < 0
    /\ other' = [other EXCEPT !.pc = "clipboardWrite"]
    /\ UNCHANGED <<firstCall, clipboard, notices>>

\* the second call's clipboard write resolves
OtherClipboardWritten ==
    /\ other.pc = "clipboardWrite"
    /\ clipboard' = WorkingText(other)
    /\ notices' = Append(notices, "Copied markdown content to clipboard!")
    /\ other' = [other EXCEPT !.pc = "done"]
    /\ UNCHANGED firstCall

NextOverlap ==
    \/ Next
    \/ OtherStart
    \/ OtherNoActiveView
    \/ OtherSkipDirective
    \/ OtherFileNotFound
    \/ OtherIssueRead
    \/ OtherReadReturns
    \/ OtherReadThrows
    \/ OtherHeadingReadReturns
    \/ OtherReturnResolved
    \/ OtherClipboardWritten

InitOverlap ==
    InitWith(SegTexts(MaxOverlapSegs) \cup {Null}, VaultConfigs, {DefaultSettings})

SpecOverlap == InitOverlap /\ [][NextOverlap]_vars

RECURSIVE ResolveFrom(_, _, _)
\* the loop of resolveBlockReferences from directive k down, run without
\* interruption; Thrown when a pattern cannot be compiled
ResolveFrom(c, ms, k) ==
    IF k < 0 THEN c
    ELSE LET m == ms[k + 1]
             targetFile == resolveLink(FilePathOf(m))
         IN  IF SkipsMatch(m) THEN ResolveFrom(c, ms, StepIndex(k))
             ELSE IF targetFile = Null
             THEN ResolveFrom(SpliceText(c, m, FileNotFoundText(FilePathOf(m))), ms, StepIndex(k))
             ELSE LET first == ReplacementAfterRead(m, vault[targetFile], getFileCache(targetFile))
                      replacement == IF first # Thrown /\ NeedsHeadingFallback(m, first)
                                     THEN HeadingRegex(vault[targetFile], HashPartOf(m))
                                     ELSE first
                  IN  IF replacement = Thrown THEN Thrown
                      ELSE ResolveFrom(SpliceText(c, m, Insertion(c, m, replacement)),
                                       ms, StepIndex(k))

\* resolveBlockReferences(content) run alone, every read succeeding
resolveBlockReferences(c) == ResolveFrom(c, MatchAll(c), FirstIndex(MatchAll(c)))

\* what one export of the editor text produces when it runs alone
AloneOutput == resolveBlockReferences(Stripped(editorText))

\* C20: when two exports overlap, interleaving at any await, each ends
\* with the text it would produce alone on the same editor text and
\* vault: neither call's working text or match list is touched by the
\* other.
C20_OverlapIndependent ==
    /\ ResolveCompleted => content = AloneOutput
    /\ (editorText # Null /\ other.pc \in {"clipboardWrite", "done"})
          => other.content = AloneOutput
    /\ clipboard # Null => clipboard = AloneOutput
    /\ \A n \in 1..Len(created) : created[n][2] = AloneOutput
    /\ (err = "SyntaxError" \/ other.err = "SyntaxError") => AloneOutput = Thrown
    /\ (editorText # Null /\ op # "none" /\ other.pc # "idle")
          => other.matches = matches

\* both calls are waiting for a read, at different directives and with
\* different working texts
C20_Witness ==
    /\ pc = "read"
    /\ other.pc = "read"
    /\ Len(splices) >= 1
    /\ other.i # i
    /\ other.content # content

\* both calls have finished after such an overlap is possible: the first
\* spliced twice and both wrote the clipboard
BothCopied ==
    /\ pc = "done" /\ op = "copy"
    /\ other.pc = "done"
    /\ Len(splices) >= 2
    /\ clipboard = AloneOutput

\* the heading branch as a whole: the index path, then getHeadingContent
\* when the index path gave nothing
ExtractHeading(fileContent, idx, headingText) ==
    LET fromIndex == HeadingFromCache(fileContent, idx, headingText)
    IN  IF Truthy(fromIndex) THEN fromIndex ELSE HeadingRegex(fileContent, headingText)

\* C21: heading extraction is idempotent: the span extracted for a
\* heading, taken as a whole document with its own consistent index or
\* with no index, gives the same span when the heading is extracted again.
C21_HeadingIdempotent ==
    \A n \in 1..Len(splices) :
        LET span == splices[n].replacement
            h == HashPartOf(MatchOf(splices[n]))
        IN  (splices[n].route \in {"headingCache", "headingFallback"} /\ Truthy(span))
                => /\ ExtractHeading(span, ConsistentIndex(span), h) = span
                   /\ ExtractHeading(span, NoCache, h) = span

\* the index-only half of C21: the span re-extracted through a consistent
\* index of its own
IdempotentThroughIndex ==
    \A n \in 1..Len(splices) :
        LET span == splices[n].replacement
            h == HashPartOf(MatchOf(splices[n]))
        IN  (splices[n].route = "headingCache" /\ Truthy(span))
                => ExtractHeading(span, ConsistentIndex(span), h) = span

\* ------------------------------------------------------------------------
\* Embedded documents whose text begins with a newline
\* ------------------------------------------------------------------------

DocLeadingNewline == <<NL, "x">>

AdjacentConfigs ==
    {[text |-> DocLeadingNewline, index |-> NoCache],
     [text |-> DocPlain, index |-> IndexEmpty]}

InitAdjacent == InitWith(EditorTexts \cup {Null}, AdjacentConfigs, {DefaultSettings})

SpecAdjacent == InitAdjacent /\ [][Next]_vars

\* the text that takes the place of directive m when its newline padding
\* is decided from the characters next to it in the text T
InsertionIn(T, m) ==
    LET targetFile == resolveLink(FilePathOf(m))
    IN  IF targetFile = Null THEN FileNotFoundText(FilePathOf(m))
        ELSE LET fileContent == vault[targetFile]
                 first == ReplacementAfterRead(m, fileContent, getFileCache(targetFile))
                 replacement == IF first # Thrown /\ NeedsHeadingFallback(m, first)
                                THEN HeadingRegex(fileContent, HashPartOf(m))
                                ELSE first
             IN  Insertion(T, m, replacement)

RECURSIVE Rebuild(_, _, _, _)
\* the one-pass rebuild: from directive k (1-based) on, the segment of T
\* before the directive, its insertion, and so on to the end of T
Rebuild(T, ms, k, pos) ==
    IF k > Len(ms) THEN SliceFrom(T, pos)
    ELSE Slice(T, pos, ms[k].index) \o InsertionIn(T, ms[k])
            \o Rebuild(T, ms, k + 1, ms[k].index + ms[k].length)

\* C22: for every input text, adjacent directives included, the output
\* of the reverse-order splicing loop is the one-pass rebuild: the
\* segments of the original text between the directives, concatenated
\* with each directive's replacement padded according to the characters
\* next to the directive in the original text.
C22_LoopEqualsRebuild ==
    ResolveCompleted => content = Rebuild(original, matches, 1, 0)

\* the path saveToFile makes of what was typed in the prompt
TypedPath(input) == IF EndsWithMd(input) THEN input ELSE input \o MdExt

\* C24: a file that saveToFile creates without the user having edited
\* the suggested name (no prompt shown because a default save location is
\* set, or the prompt submitted as it came up) is named by the file-name
\* prefix, the active file's base name and `.md`.
C24_CreatedNameHasPrefix ==
    \A n \in 1..Len(created) :
        \/ created[n][1] = SuggestedName
        \/ /\ settings.defaultSaveLocation = <<>>
           /\ \E input \in PromptInputs \ {SuggestedName} : created[n][1] = TypedPath(input)

\* the first offset of a line where `^<id>` stands followed by whitespace
\* or the end of the line, or -1
TokenOffset(line, id) ==
    LET token == <<"^">> \o id
        hits == {q \in 0..Len(line) :
                    /\ StartsWithAt(line, token, q)
                    /\ (q + Len(token) = Len(line) \/ IsSpace(At(line, q + Len(token))))}
    IN  IF hits = {} THEN -1 ELSE Min(hits)

\* the text before the token on the first line, top to bottom, that
\* holds the token, trimmed; Null when no line holds it
TextOfTokenLine(fileContent, id) ==
    LET fileLines == Split(fileContent)
        hits == {k \in 1..Len(fileLines) : TokenOffset(fileLines[k], id) >= 0}
    IN  IF hits = {} THEN Null
        ELSE Trim(Slice(fileLines[Min(hits)], 0, TokenOffset(fileLines[Min(hits)], id)))

\* C26: for a block directive whose id is not in the index, the text the
\* fallback extracts comes from the first line of the raw text that holds
\* `^<id>` followed by whitespace or end of line, the token removed; the
\* text of another line (the line before a lone anchor) is never returned.
C26_FallbackTakesTokenLine ==
    \A n \in 1..Len(splices) :
        (splices[n].route = "blockFallback" /\ Truthy(splices[n].replacement))
            => splices[n].replacement
                  = TextOfTokenLine(RawOf(MatchOf(splices[n])),
                                    SliceFrom(HashPartOf(MatchOf(splices[n])), 1))

\* resolveBlockReferences returns to saveToFile: the prompt opens if and
\* only if the default save location is empty
PromptIffNoDefault ==
    (pc = "loop" /\ i < 0 /\ op = "save" /\ pc' # pc)
        => (pc' = "prompt" <=> settings.defaultSaveLocation = <<>>)

\* the prompt is cancelled or the overwrite declined: the handler ends
\* and nothing the user can see has changed
AbortLeavesNoTrace ==
    (pc \in {"prompt", "confirm"} /\ pc' = "done")
        => /\ vault' = vault
           /\ created' = created
           /\ opened' = opened
           /\ notices' = notices

\* C25: saveToFile prompts for a path if and only if the default save
\* location is empty; when the prompt is cancelled or the overwrite is
\* declined the vault is unchanged, no file is opened, no success notice
\* is shown, and the handler has returned.
C25_PromptAndAbort ==
    [][PromptIffNoDefault /\ AbortLeavesNoTrace /\ pc # "done"]_vars

\* the overwrite of an existing file was declined
C25_Witness ==
    /\ op = "save"
    /\ pc = "done"
    /\ targetPath # <<>>
    /\ FileExists(targetPath)
    /\ created = <<>>
    /\ notices = <<>>

\* C27: when the target path exists as a file and the user confirms the
\* overwrite, saveToFile ends with the file holding the exported content
\* and with the success notice, not the failure notice.
C27_ConfirmedOverwriteSucceeds ==
    [][(pc = "create" /\ FileExists(targetPath) /\ pc' = "done")
          => /\ vault'[targetPath] = content
             /\ notices' = Append(notices, "Content saved to")]_vars

\* ------------------------------------------------------------------------
\* saveToFile under fair scheduling
\* ------------------------------------------------------------------------

LiveConfigs ==
    {[text |-> DocHeadings, index |-> NoCache],
     [text |-> DocHeadings, index |-> IndexHeadings]}

InitLive == InitWith(HeadingEditorTexts, LiveConfigs, {DefaultSettings})

\* a modal that is open gets closed, one way or another
ModalCloses ==
    \/ \E input \in PromptInputs : PromptSubmit(input)
    \/ PromptCancel
    \/ PromptDismiss
    \/ ConfirmOverwrite
    \/ DeclineOverwrite

\* vault.create settles
CreateSettles == CreateReturns \/ CreateThrows

\* the user closes an open modal and the host settles vault.create
SpecLive == InitLive /\ [][Next]_vars /\ WF_vars(ModalCloses) /\ WF_vars(CreateSettles)

\* C28: a saveToFile call that has opened the save-path prompt eventually
\* finishes, however the modal is closed (Save, Cancel, Enter, or
\* dismissed without a button): the awaited promise is always resolved.
C28_PromptedSaveFinishes == (pc = "prompt") ~> (pc = "done")

\* ------------------------------------------------------------------------
\* Buttons: ribbon icons, floating containers, position settings
\* (main.ts 317-450, 517-619, 678-833, 1174-1204)
\* ------------------------------------------------------------------------

\* cap on the ribbon icons of one type
MaxRibbon == 2

\* cap on the calls of updateAllFloatingButtonPositions between two expiries
MaxBurst == 3

\* cap on the timers pending at once
MaxTimers == 2

ButtonTypes == {"copy", "save"}

\* the values of the position dropdowns (main.ts 289-290, 1358-1365)
FloatingPositions ==
    {"floating-left-top", "floating-left-middle", "floating-left-bottom",
     "floating-right-top", "floating-right-middle", "floating-right-bottom"}

Positions == {"ribbon", "hidden"} \cup FloatingPositions

\* position.startsWith('floating-') over the dropdown's values
StartsWithFloating(position) == position \in FloatingPositions

\* settings.copyButtonPosition / settings.saveButtonPosition
PositionOf(s, type) ==
    IF type = "copy" THEN s.copyButtonPosition ELSE s.saveButtonPosition

\* a `div.editor-to-clipboard-floating-container` of the document: its
\* second class, its style.display ("" = left to the stylesheet) and the
\* buttons created in it.  The coordinates in its style are left out.
Container(cls, display, buttons) ==
    [cls |-> cls, display |-> display, buttons |-> buttons]

\* element.style.display = 'none' on the element a field refers to
SetDisplayNone(dom, ref) ==
    {IF c.cls = ref THEN [c EXCEPT !.display = "none"] ELSE c : c \in dom}

\* hideFloatingButtons (main.ts 443-450)
hideFloatingButtons(g) ==
    LET d1 == IF g.floatingCopyContainer # "null"
              THEN SetDisplayNone(g.dom, g.floatingCopyContainer) ELSE g.dom
        d2 == IF g.floatingSaveContainer # "null"
              THEN SetDisplayNone(d1, g.floatingSaveContainer) ELSE d1
    IN  [g EXCEPT !.dom = d2]

\* createFloatingButton(type, position) (main.ts 517-619): a container of
\* its own in document.body, the reference stored in the field of the type,
\* one button of the type in it
createFloatingButton(g, type) ==
    LET container == Container(type, "", {type})
    IN  IF type = "copy"
        THEN [g EXCEPT !.dom = @ \cup {container}, !.floatingCopyContainer = type]
        ELSE [g EXCEPT !.dom = @ \cup {container}, !.floatingSaveContainer = type]

\* createFloatingButtonGroup(position) (main.ts 678-746): the container is
\* created in document.body; without the root split of the workspace the
\* function returns it empty and stores no reference
createFloatingButtonGroup(g, mainContent) ==
    IF ~mainContent
    THEN [g EXCEPT !.dom = @ \cup {Container("group", "", {})}]
    ELSE [g EXCEPT !.dom = @ \cup {Container("group", "flex", {"copy", "save"})},
                   !.floatingCopyContainer = "group",
                   !.floatingSaveContainer = "group",
                   !.floatingButtonsContainer = "group"]

\* addButtonForPosition(type, position) (main.ts 810-833): nothing for
\* `hidden` and for the floating positions, one more ribbon icon for
\* `ribbon`
addButtonForPosition(g, type, position) ==
    IF position = "hidden" THEN g
    ELSE IF position = "ribbon" THEN [g EXCEPT !.ribbon[type] = @ + 1]
    ELSE g

\* addButtonsToContainers (main.ts 799-805)
addButtonsToContainers(g, s) ==
    addButtonForPosition(addButtonForPosition(g, "copy", s.copyButtonPosition),
                         "save", s.saveButtonPosition)

\* updateButtonLocations (main.ts 395-438) under settings s; settingsOpen is
\* what isSettingsOpen() answers, mainContent whether the root split exists
updateButtonLocations(g, s, settingsOpen, mainContent) ==
    LET hidden == hideFloatingButtons(g)
        \* 398-412: the referenced containers and every element of the
        \* floating-container class leave the document
        cleaned == [hidden EXCEPT !.dom = {},
                                  !.floatingCopyContainer = "null",
                                  !.floatingSaveContainer = "null",
                                  !.floatingButtonsContainer = "null"]
        floating ==
            IF StartsWithFloating(s.copyButtonPosition)
               \/ StartsWithFloating(s.saveButtonPosition)
            THEN IF s.copyButtonPosition = s.saveButtonPosition
                    /\ StartsWithFloating(s.copyButtonPosition)
                 THEN createFloatingButtonGroup(cleaned, mainContent)
                 ELSE LET c == IF StartsWithFloating(s.copyButtonPosition)
                               THEN createFloatingButton(cleaned, "copy")
                               ELSE cleaned
                      IN  IF StartsWithFloating(s.saveButtonPosition)
                          THEN createFloatingButton(c, "save")
                          ELSE c
            ELSE cleaned
    IN  IF settingsOpen THEN cleaned ELSE addButtonsToContainers(floating, s)

\* the least timer id not in use
FreshTimer(used) ==
    CHOOSE t \in 1..(MaxTimers + 1) : t \notin used /\ \A u \in 1..(t - 1) : u \in used

\* mutant of updateAllFloatingButtonPositions: the pending timer is not
\* cancelled before the next one is set
updateAllFloatingButtonPositionsNoClear(g, settingTabActive) ==
    IF settingTabActive THEN g
    ELSE LET t == FreshTimer(g.timers)
         IN  [g EXCEPT !.timers = @ \cup {t}, !.positionUpdateTimeout = t,
                       !.burst = @ + 1]

\* updateAllFloatingButtonPositions (main.ts 1174-1204), up to setTimeout;
\* settingTabActive is `activeLeaf?.view instanceof SettingTab`
updateAllFloatingButtonPositions(g, settingTabActive) ==
    IF settingTabActive THEN g
    ELSE LET cleared == IF g.positionUpdateTimeout # 0
                        THEN g.timers \ {g.positionUpdateTimeout}
                        ELSE g.timers
             t == FreshTimer(cleared)
         IN  [g EXCEPT !.timers = cleared \cup {t}, !.positionUpdateTimeout = t,
                       !.burst = @ + 1]

\* what the button handlers leave alone
engine == <<rev, vault, cache, editorText, op, pc, content, original, matches, i,
            calls, splices, clipboard, notices, created, opened, err, targetPath,
            other>>

RibbonWithinCap(g) == \A t \in ButtonTypes : g.ribbon[t] <= MaxRibbon

\* onload (main.ts 317-373): the settings are loaded and the buttons placed
Onload(settingsOpen, mainContent) ==
    /\ ~gui.loaded
    /\ gui' = [updateButtonLocations(gui, settings, settingsOpen, mainContent)
                 EXCEPT !.loaded = TRUE]
    /\ UNCHANGED <<engine, settings>>

\* the layout-change handler (main.ts 346-355)
LayoutChange(settingsOpen, mainContent) ==
    /\ gui.loaded
    /\ LET g == IF settingsOpen
                THEN hideFloatingButtons(gui)
                ELSE updateButtonLocations(gui, settings, settingsOpen, mainContent)
       IN  /\ RibbonWithinCap(g)
           /\ gui' = g
    /\ UNCHANGED <<engine, settings>>

\* the copy-position dropdown's onChange (main.ts 1366-1371); saveSettings
\* touches none of this state
SetCopyButtonPosition(value, settingsOpen, mainContent) ==
    /\ gui.loaded
    /\ settings' = [settings EXCEPT !.copyButtonPosition = value]
    /\ LET g == updateButtonLocations(gui, settings', settingsOpen, mainContent)
       IN  /\ RibbonWithinCap(g)
           /\ gui' = g
    /\ UNCHANGED engine

\* the save-position dropdown's onChange (main.ts 1385-1390)
SetSaveButtonPosition(value, settingsOpen, mainContent) ==
    /\ gui.loaded
    /\ settings' = [settings EXCEPT !.saveButtonPosition = value]
    /\ LET g == updateButtonLocations(gui, settings', settingsOpen, mainContent)
       IN  /\ RibbonWithinCap(g)
           /\ gui' = g
    /\ UNCHANGED engine

\* the resize and active-leaf-change handlers registered by onload
\* (main.ts 358-372), which have the same body
ResizeOrActiveLeafChange(settingsOpen, settingTabActive) ==
    /\ gui.loaded
    /\ ~settingsOpen
    /\ gui.burst < MaxBurst
    /\ Cardinality(gui.timers) <= MaxTimers
    /\ LET g == updateAllFloatingButtonPositions(gui, settingTabActive)
       IN  /\ Cardinality(g.timers) <= MaxTimers
           /\ gui' = g
    /\ UNCHANGED <<engine, settings>>

\* a pending timer expires and its callback runs (main.ts 1187-1203): the
\* containers are repositioned and the reference is cleared
TimerFires(t) ==
    /\ t \in gui.timers
    /\ gui' = [gui EXCEPT !.timers = @ \ {t}, !.positionUpdateTimeout = 0,
                          !.lastBurst = gui.burst, !.burst = 0]
    /\ UNCHANGED <<engine, settings>>

\* the settings data.json may hold when the plugin loads
PositionSettings ==
    {[DefaultSettings EXCEPT !.copyButtonPosition = c, !.saveButtonPosition = s] :
        c \in Positions, s \in Positions}

InitUI == InitWith({Null}, {[text |-> DocPlain, index |-> NoCache]}, PositionSettings)

NextUI ==
    \/ \E settingsOpen \in BOOLEAN, mainContent \in BOOLEAN :
          Onload(settingsOpen, mainContent)
    \/ \E settingsOpen \in BOOLEAN, mainContent \in BOOLEAN :
          LayoutChange(settingsOpen, mainContent)
    \/ \E value \in Positions, settingsOpen \in BOOLEAN, mainContent \in BOOLEAN :
          SetCopyButtonPosition(value, settingsOpen, mainContent)
    \/ \E value \in Positions, settingsOpen \in BOOLEAN, mainContent \in BOOLEAN :
          SetSaveButtonPosition(value, settingsOpen, mainContent)
    \/ \E settingsOpen \in BOOLEAN, settingTabActive \in BOOLEAN :
          ResizeOrActiveLeafChange(settingsOpen, settingTabActive)
    \/ \E t \in 1..(MaxTimers + 1) : TimerFires(t)

SpecUI == InitUI /\ [][NextUI]_vars

\* the buttons of a type in the user interface
Existing(g, type) ==
    g.ribbon[type] + Cardinality({c \in g.dom : type \in c.buttons})

\* the buttons of a type that are displayed
Displayed(g, type) ==
    g.ribbon[type] + Cardinality({c \in g.dom : type \in c.buttons /\ c.display # "none"})

\* a step in which updateButtonLocations ran to its end
UpdateButtonLocationsReturned ==
    \E settingsOpen \in BOOLEAN, mainContent \in BOOLEAN :
        gui' = [updateButtonLocations(gui, settings', settingsOpen, mainContent)
                  EXCEPT !.loaded = TRUE]

\* C23: whenever updateButtonLocations returns while the position of a
\* button type is `hidden`, no button of that type is displayed, in the
\* ribbon or floating, whatever position changes and layout-change events
\* came before.
C23_HiddenMeansNotDisplayed ==
    [][UpdateButtonLocationsReturned =>
         \A type \in ButtonTypes :
            PositionOf(settings', type) = "hidden" => Displayed(gui', type) = 0]_vars

\* C29: after any sequence of plugin load, layout-change events and
\* position changes, the user interface holds at most one copy button and at
\* most one save button, ribbon and floating containers together.
C29_AtMostOneButtonPerType ==
    \A type \in ButtonTypes : Existing(gui, type) <= 1

====
